---- MODULE Spec2Model ----
(***************************************************************************)
(* Model of the bell detector: the live detection loop of                  *)
(* Model/Live-detection.py and the feature extraction / model construction *)
(* of Model/model.py.                                                      *)
(*                                                                         *)
(* Audio buffers are represented by their sample count, feature matrices   *)
(* and tensors by their shape (a tuple of axis lengths), probabilities by  *)
(* integer percentages.  DURATION values are in milliseconds.              *)
(***************************************************************************)
EXTENDS Integers, Sequences, FiniteSets, TLC

\* ---- bounds of the model ------------------------------------------------
MaxCycles == 2
MaxClasses == 3
ChunkStep == 1470
MaxChunkSteps == 16

\* ---- program constants --------------------------------------------------
SAMPLE_RATE == 22050
DURATION == 1000
N_MFCC == 13
N_FFT == 2048
HOP_LENGTH == 512
THRESHOLD == 90
TARGET == "bell"

SAMPLES_PER_CHUNK == (SAMPLE_RATE * DURATION) \div 1000

class_names == <<"background", "bell">>

\* ---- inputs ---------------------------------------------------------------
\* sample counts of captured / loaded audio buffers
ChunkLens ==
    {n * ChunkStep : n \in 1..MaxChunkSteps}
        \cup {SAMPLES_PER_CHUNK - 1, SAMPLES_PER_CHUNK, SAMPLES_PER_CHUNK + 1}

\* extract_features(file_path, duration=1.0, sr=22050): keyword arguments
TrainRates == {SAMPLE_RATE, 16000}
TrainDurations == {DURATION, 500}

\* class probabilities, in percent
Probs == {5, 10, 15, 50, 80, 85, 90, 95}

RECURSIVE SumSeq(_)
SumSeq(s) == IF s = <<>> THEN 0 ELSE Head(s) + SumSeq(Tail(s))

\* softmax output over n classes: n probabilities that sum to 1
Softmax(n) == {v \in [1..n -> Probs] : SumSeq(v) = 100}

\* ---- feature extraction ---------------------------------------------------
\* librosa.feature.mfcc(y, sr, n_mfcc, n_fft, hop_length): centred framing
\* pads n_fft // 2 samples on both sides; result is (n_mfcc, frames)
mfcc(y, n_mfcc, n_fft, hop_length) ==
    LET padded == y + 2 * (n_fft \div 2)
    IN  <<n_mfcc, 1 + (padded - n_fft) \div hop_length>>

\* ndarray.T of a 2-d array
T(shape) == <<shape[2], shape[1]>>

\* variant: the matrix is returned coefficient-major, without the transpose
process_audio_NoTranspose(audio_data) ==
    mfcc(audio_data, N_MFCC, N_FFT, HOP_LENGTH)

\* Live-detection.py process_audio: normalise, mfcc, transpose.
\* astype and the division by 32768.0 keep the sample count.
process_audio(audio_data) ==
    LET audio == audio_data
    IN  T(mfcc(audio, N_MFCC, N_FFT, HOP_LENGTH))

\* model.py extract_features on a file that librosa.load returns n samples for
extract_features(n, duration, sr) ==
    LET want  == (sr * duration) \div 1000
        audio == IF n * 1000 < sr * duration
                 THEN n + (want - n)
                 ELSE IF n < want THEN n ELSE want
    IN  T(mfcc(audio, N_MFCC, N_FFT, HOP_LENGTH))

\* ---- classifier -----------------------------------------------------------
NoModel == [input_shape |-> <<>>, num_classes |-> 0]

\* model.py create_model: Input(shape=input_shape) ... Dense(num_classes)
create_model(input_shape, num_classes) ==
    [input_shape |-> input_shape, num_classes |-> num_classes]

\* mfccs[np.newaxis, ...]
AddBatch(shape) == <<1>> \o shape

\* variant: only the rank of the input is compared
Compatible_RankOnly(m, input_data) ==
    Len(input_data) = Len(m.input_shape) + 1

\* the Input layer admits a batch of matrices of exactly input_shape
Compatible(m, input_data) ==
    /\ Len(input_data) = Len(m.input_shape) + 1
    /\ Tail(input_data) = m.input_shape

\* np.argmax(prediction) works on the flattened array, first maximum wins,
\* 0-based
Flatten(prediction) == IF prediction = <<>> THEN <<>> ELSE prediction[1]

argmax(prediction) ==
    LET flat == Flatten(prediction)
        best == CHOOSE i \in 1..Len(flat) :
                    /\ \A j \in 1..Len(flat) : flat[j] <= flat[i]
                    /\ \A j \in 1..(i - 1) : flat[j] < flat[i]
    IN  best - 1

\* class_names[class_idx] is defined
InRange(idx) == idx < Len(class_names)

\* variant: threshold compared with >=
Fires_AtLeast(label, confidence) == label = TARGET /\ confidence >= THRESHOLD

\* Live-detection.py line 49
Fires(label, confidence) == label = TARGET /\ confidence > THRESHOLD

\* ---- state ----------------------------------------------------------------
VARIABLES
    pc,           \* position of the script / of the harness
    model,        \* the loaded (or trained) classifier
    train_cfg,    \* <<duration, sr>> the classifier was trained with
    p,            \* PyAudio backend: "none", "initialized", "terminated"
    stream,       \* "none", "active", "stopped", "closed"
    audio_chunk,  \* sample count of the current chunk, 0 = none
    mfccs,        \* shape of the current feature matrix, <<>> = none
    prediction,   \* model output, a 1 x num_classes matrix, <<>> = none
    events,       \* detections printed so far
    cycles,       \* chunks read so far
    exc,          \* uncaught exception that ended the process, or "none"
    sigint        \* position at which Ctrl+C was raised, or "none"

vars == <<pc, model, train_cfg, p, stream, audio_chunk, mfccs, prediction,
          events, cycles, exc, sigint>>

Idle == {"load", "init_audio", "open"}
Running == {"read", "process", "predict", "decide"}
Stopping == {"stop_stream", "close", "terminate", "print_stopped"}
Terminal == {"stopped", "crashed"}

\* model artifacts model.py can save
Artifacts ==
    {<<create_model(extract_features(n, d, sr), k), <<d, sr>>>> :
        n \in ChunkLens, d \in TrainDurations, sr \in TrainRates,
        k \in 2..MaxClasses}

Init ==
    /\ pc = "load"
    /\ model = NoModel
    /\ train_cfg = <<0, 0>>
    /\ p = "none"
    /\ stream = "none"
    /\ audio_chunk = 0
    /\ mfccs = <<>>
    /\ prediction = <<>>
    /\ events = <<>>
    /\ cycles = 0
    /\ exc = "none"
    /\ sigint = "none"

\* an exception nothing catches ends the process where it stands
Raise(kind) ==
    /\ exc' = kind
    /\ pc' = "crashed"

\* ---- startup (Live-detection.py lines 6, 29-34) ---------------------------
LoadModel ==
    /\ pc = "load"
    /\ \E a \in Artifacts :
          /\ model' = a[1]
          /\ train_cfg' = a[2]
    /\ pc' = "init_audio"
    /\ UNCHANGED <<p, stream, audio_chunk, mfccs, prediction, events, cycles,
                   exc, sigint>>

\* variant: the audio backend is created before the model is loaded
LoadModelFail_AudioFirst ==
    /\ pc = "load"
    /\ p' = "initialized"
    /\ Raise("ModelLoadError")
    /\ UNCHANGED <<model, train_cfg, stream, audio_chunk, mfccs,
                   prediction, events, cycles, sigint>>

LoadModelFail ==
    /\ pc = "load"
    /\ Raise("ModelLoadError")
    /\ UNCHANGED <<model, train_cfg, p, stream, audio_chunk, mfccs,
                   prediction, events, cycles, sigint>>

InitAudio ==
    /\ pc = "init_audio"
    /\ p' = "initialized"
    /\ pc' = "open"
    /\ UNCHANGED <<model, train_cfg, stream, audio_chunk, mfccs, prediction,
                   events, cycles, exc, sigint>>

OpenStream ==
    /\ pc = "open"
    /\ stream' = "active"
    /\ pc' = "read"
    /\ UNCHANGED <<model, train_cfg, p, audio_chunk, mfccs, prediction,
                   events, cycles, exc, sigint>>

OpenStreamFail ==
    /\ pc = "open"
    /\ Raise("DeviceUnavailable")
    /\ UNCHANGED <<model, train_cfg, p, stream, audio_chunk, mfccs,
                   prediction, events, cycles, sigint>>

\* Ctrl+C before the try block is entered: nothing catches it
InterruptStartup ==
    /\ pc \in Idle
    /\ sigint = "none"
    /\ sigint' = pc
    /\ Raise("KeyboardInterrupt")
    /\ UNCHANGED <<model, train_cfg, p, stream, audio_chunk, mfccs,
                   prediction, events, cycles>>

\* ---- the detection loop (lines 37-50) -------------------------------------
ReadChunk ==
    /\ pc = "read"
    /\ cycles < MaxCycles
    /\ audio_chunk' = SAMPLES_PER_CHUNK
    /\ cycles' = cycles + 1
    /\ mfccs' = <<>>
    /\ prediction' = <<>>
    /\ pc' = "process"
    /\ UNCHANGED <<model, train_cfg, p, stream, events, exc, sigint>>

\* stream.read raises (input overflow, device gone)
ReadChunkFail ==
    /\ pc = "read"
    /\ Raise("StreamError")
    /\ UNCHANGED <<model, train_cfg, p, stream, audio_chunk, mfccs,
                   prediction, events, cycles, sigint>>

ProcessAudio ==
    /\ pc = "process"
    /\ mfccs' = process_audio(audio_chunk)
    /\ pc' = "predict"
    /\ UNCHANGED <<model, train_cfg, p, stream, audio_chunk, prediction,
                   events, cycles, exc, sigint>>

\* model.predict(input_data): a probability row, or the shape error of the
\* Input layer
model_predict(input_data, done) ==
    IF Compatible(model, input_data)
    THEN /\ \E v \in Softmax(model.num_classes) : prediction' = <<v>>
         /\ pc' = done
         /\ exc' = exc
    ELSE /\ Raise("ShapeMismatchError")
         /\ prediction' = prediction

Predict ==
    /\ pc = "predict"
    /\ model_predict(AddBatch(mfccs), "decide")
    /\ UNCHANGED <<model, train_cfg, p, stream, audio_chunk, mfccs, events,
                   cycles, sigint>>

\* lines 46-50: argmax, confidence, label lookup, print
Decide ==
    /\ pc = "decide"
    /\ LET class_idx  == argmax(prediction)
           confidence == prediction[1][class_idx + 1]
       IN  IF ~InRange(class_idx)
           THEN /\ Raise("IndexError")
                /\ events' = events
           ELSE /\ events' =
                      IF Fires(class_names[class_idx + 1], confidence)
                      THEN Append(events,
                                  [label |-> class_names[class_idx + 1],
                                   confidence |-> confidence])
                      ELSE events
                /\ pc' = "read"
                /\ exc' = exc
    /\ UNCHANGED <<model, train_cfg, p, stream, audio_chunk, mfccs,
                   prediction, cycles, sigint>>

\* variant: the handler swallows the interrupt and the loop carries on
KeyboardInterrupt_Deferred ==
    /\ pc \in Running
    /\ sigint = "none"
    /\ sigint' = pc
    /\ pc' = "read"
    /\ UNCHANGED <<model, train_cfg, p, stream, audio_chunk, mfccs,
                   prediction, events, cycles, exc>>

\* Ctrl+C inside the try block (line 51): control passes to the handler
KeyboardInterrupt ==
    /\ pc \in Running
    /\ sigint = "none"
    /\ sigint' = pc
    /\ pc' = "stop_stream"
    /\ UNCHANGED <<model, train_cfg, p, stream, audio_chunk, mfccs,
                   prediction, events, cycles, exc>>

\* ---- the handler (lines 52-55) --------------------------------------------
StopStream ==
    /\ pc = "stop_stream"
    /\ stream' = "stopped"
    /\ pc' = "close"
    /\ UNCHANGED <<model, train_cfg, p, audio_chunk, mfccs, prediction,
                   events, cycles, exc, sigint>>

\* variant: the handler stops the stream and never closes it
CloseStream_Skipped ==
    /\ pc = "close"
    /\ pc' = "terminate"
    /\ UNCHANGED <<model, train_cfg, p, stream, audio_chunk, mfccs,
                   prediction, events, cycles, exc, sigint>>

CloseStream ==
    /\ pc = "close"
    /\ stream' = "closed"
    /\ pc' = "terminate"
    /\ UNCHANGED <<model, train_cfg, p, audio_chunk, mfccs, prediction,
                   events, cycles, exc, sigint>>

Terminate ==
    /\ pc = "terminate"
    /\ p' = "terminated"
    /\ pc' = "print_stopped"
    /\ UNCHANGED <<model, train_cfg, stream, audio_chunk, mfccs, prediction,
                   events, cycles, exc, sigint>>

PrintStopped ==
    /\ pc = "print_stopped"
    /\ pc' = "stopped"
    /\ UNCHANGED <<model, train_cfg, p, stream, audio_chunk, mfccs,
                   prediction, events, cycles, exc, sigint>>

Next ==
    \/ LoadModel
    \/ LoadModelFail
    \/ InitAudio
    \/ OpenStream
    \/ OpenStreamFail
    \/ InterruptStartup
    \/ ReadChunk
    \/ ReadChunkFail
    \/ ProcessAudio
    \/ Predict
    \/ Decide
    \/ KeyboardInterrupt
    \/ StopStream
    \/ CloseStream
    \/ Terminate
    \/ PrintStopped

Spec == Init /\ [][Next]_vars

\* the handler runs to completion once entered
LiveSpec ==
    /\ Init
    /\ [][Next]_vars
    /\ WF_vars(StopStream)
    /\ WF_vars(CloseStream)
    /\ WF_vars(Terminate)
    /\ WF_vars(PrintStopped)

\* ---- the feature extractor and the classifier on their own ----------------
MalformedShapes ==
    {<<f, w>> : f \in {32, 43, 44, 45}, w \in {N_MFCC - 1, N_MFCC, N_MFCC + 1}}

FeatInit ==
    /\ pc = "train"
    /\ model = NoModel
    /\ train_cfg = <<0, 0>>
    /\ p = "none"
    /\ stream = "none"
    /\ audio_chunk = 0
    /\ mfccs = <<>>
    /\ prediction = <<>>
    /\ events = <<>>
    /\ cycles = 0
    /\ exc = "none"
    /\ sigint = "none"

\* model.py __main__: X from extract_features, create_model(X[0].shape, ...)
TrainModel ==
    /\ pc = "train"
    /\ \E n \in ChunkLens, d \in TrainDurations, sr \in TrainRates,
          k \in 2..MaxClasses :
          /\ model' = create_model(extract_features(n, d, sr), k)
          /\ train_cfg' = <<d, sr>>
    /\ pc' = "test"
    /\ UNCHANGED <<p, stream, audio_chunk, mfccs, prediction, events, cycles,
                   exc, sigint>>

\* process_audio applied to a chunk of any length
TestProcessAudio ==
    /\ pc = "test"
    /\ \E n \in ChunkLens :
          /\ audio_chunk' = n
          /\ mfccs' = process_audio(n)
    /\ pc' = "extracted"
    /\ UNCHANGED <<model, train_cfg, p, stream, prediction, events, cycles,
                   exc, sigint>>

\* a feature matrix that did not come from process_audio
TestMalformed ==
    /\ pc = "test"
    /\ \E s \in MalformedShapes : mfccs' = s
    /\ pc' = "extracted"
    /\ UNCHANGED <<model, train_cfg, p, stream, audio_chunk, prediction,
                   events, cycles, exc, sigint>>

TestPredict ==
    /\ pc = "extracted"
    /\ model_predict(AddBatch(mfccs), "predicted")
    /\ UNCHANGED <<model, train_cfg, p, stream, audio_chunk, mfccs, events,
                   cycles, sigint>>

FeatNext ==
    \/ TrainModel
    \/ TestProcessAudio
    \/ TestMalformed
    \/ TestPredict

FeatSpec == FeatInit /\ [][FeatNext]_vars

\* ---- properties -----------------------------------------------------------
\* the label and confidence a completed prediction decides on
ArgmaxLabel ==
    IF InRange(argmax(prediction))
    THEN class_names[argmax(prediction) + 1]
    ELSE "unknown"

ArgmaxConfidence == prediction[1][argmax(prediction) + 1]

\* C1: decision rule.  A cycle that finishes its decision appends exactly one
\* event (label, confidence) when the argmax label is "bell" and its
\* confidence is strictly above 0.9, and appends nothing otherwise; no other
\* step ever changes the events.
EmitsByRule ==
    IF pc = "decide" /\ pc' = "read"
    THEN IF ArgmaxLabel = "bell" /\ ArgmaxConfidence > 90
         THEN events' = Append(events, [label |-> "bell",
                                        confidence |-> ArgmaxConfidence])
         ELSE events' = events
    ELSE events' = events

C1_DecisionRule == [][EmitsByRule]_vars

\* two cycles done: 0.95 on bell emitted, then exactly 0.90 on bell did not
C1_Witness ==
    /\ pc = "read"
    /\ cycles = 2
    /\ prediction = << <<10, 90>> >>
    /\ events = <<[label |-> "bell", confidence |-> 95]>>

\* C2: the stream is released on every exit path: a terminal state reached
\* after the stream was opened has the stream closed and the backend
\* terminated.
C2_ReleasedOnAllExits ==
    (pc \in Terminal /\ stream # "none") =>
        /\ stream = "closed"
        /\ p = "terminated"

\* C3: a per-cycle feature-extraction or shape error never takes the loop out
\* of Running.
C3_PartialFailureTolerance ==
    exc \in {"FeatureExtractionError", "ShapeMismatchError"} => pc \in Running

\* C4: cancellation during the blocking read.  Once the interrupt has been
\* raised inside the loop no cycle step runs again and nothing more is
\* emitted; Stopped is terminal and is entered only with the stream closed and
\* the backend terminated; an interrupt raised in the read leads to Stopped.
FrozenAfterInterrupt ==
    sigint \in Running =>
        /\ events' = events
        /\ cycles' = cycles
        /\ mfccs' = mfccs
        /\ prediction' = prediction

C4_Cancellation ==
    /\ [](sigint \in Running => pc \in Stopping \cup {"stopped"})
    /\ [][FrozenAfterInterrupt]_vars
    /\ [](pc = "stopped" => stream = "closed" /\ p = "terminated")
    /\ [][pc = "stopped" => pc' = "stopped"]_vars
    /\ (sigint = "read" ~> (pc = "stopped" /\ stream = "closed"
                                /\ p = "terminated"))

C4_Witness ==
    /\ sigint = "read"
    /\ pc = "stopped"
    /\ stream = "closed"
    /\ p = "terminated"
    /\ cycles = 1

\* C5: process_audio gives every chunk, whatever its length, the feature
\* shape of a full-length chunk.
C5_PadCorrectness ==
    (pc = "extracted" /\ audio_chunk > 0) =>
        mfccs = <<1 + SAMPLES_PER_CHUNK \div HOP_LENGTH, N_MFCC>>

\* C6: shape determinism.  For a chunk of exactly SAMPLES_PER_CHUNK samples
\* process_audio yields a time-major matrix (13 coefficients on the trailing
\* axis) of the shape a model trained with the same rate and duration has as
\* its input shape, and that model accepts it.
C6_ShapeDeterminism ==
    (/\ pc \in {"extracted", "predicted"}
     /\ audio_chunk = SAMPLES_PER_CHUNK
     /\ train_cfg = <<DURATION, SAMPLE_RATE>>) =>
        /\ mfccs = model.input_shape
        /\ mfccs[2] = 13
        /\ pc \in {"predicted", "crashed"} =>
              pc = "predicted" /\ exc = "none" /\ prediction # <<>>

C6_Witness ==
    /\ pc = "predicted"
    /\ audio_chunk = SAMPLES_PER_CHUNK
    /\ train_cfg = <<DURATION, SAMPLE_RATE>>
    /\ mfccs = <<44, 13>>
    /\ prediction # <<>>

C8_Cooperative ==
    [][~(pc \in {"process", "predict", "decide"} /\ pc' \in Stopping)]_vars

\* C8 amended: the interrupt is observed at whatever step of the cycle it
\* arrives in; that step is where the cycle ends: control goes straight to
\* the release handler, nothing is emitted and no further chunk is read.  The
\* interrupt is the only way from Running to Stopping, and an uninterrupted
\* cycle runs read, extract, predict, decide in that order.
CycleOrder ==
    {<<"read", "process">>, <<"process", "predict">>,
     <<"predict", "decide">>, <<"decide", "read">>}

AbandonsCycle ==
    /\ (sigint = "none" /\ sigint' \in Running) =>
          /\ sigint' = pc
          /\ pc' = "stop_stream"
          /\ events' = events
          /\ cycles' = cycles
    /\ (pc \in Running /\ pc' \in Stopping) =>
          sigint = "none" /\ sigint' = pc
    /\ (pc \in Running /\ pc' \in Running) =>
          <<pc, pc'>> \in CycleOrder

C8_Asynchronous == [][AbandonsCycle]_vars

\* interrupted after the prediction was made, before the decision
C8_Witness ==
    /\ sigint = "decide"
    /\ pc = "stop_stream"
    /\ prediction = << <<5, 95>> >>
    /\ events = <<>>

\* C9: the label lookup never goes out of bounds.
C9_LabelInBounds ==
    exc # "IndexError"

\* C10: startup order.  A model-load failure ends the process before any
\* audio backend or stream exists, and a cycle step is only ever taken with
\* the model loaded, the backend initialised and the stream open.
C10_StartupOrder ==
    /\ exc = "ModelLoadError" =>
          /\ p = "none"
          /\ stream = "none"
          /\ cycles = 0
          /\ events = <<>>
    /\ (pc \in Running \/ cycles > 0) => model # NoModel
    /\ pc \in Running => p = "initialized" /\ stream = "active"

C10_Witness ==
    /\ pc = "crashed"
    /\ exc = "ModelLoadError"
    /\ p = "none"
    /\ stream = "none"

====
